---- MODULE Spec2Model ----
(***************************************************************************)
(* A model of mcp-sexpr: keyword extraction from tool-call forms, the      *)
(* typed accessors layered on it, the TextRef abstraction and the          *)
(* serialization helpers.                                                  *)
(*                                                                         *)
(* Text is modelled as a sequence of one-character strings, so that        *)
(* prefix stripping, escaping and parsing are computed character by        *)
(* character, as the code does.                                            *)
(***************************************************************************)
EXTENDS Integers, Sequences, FiniteSets, TLC

VARIABLES
    root, key,                                      \* get_kw_value(root, key)
    value, tref,                                    \* parse_text_ref(value), render_text_ref(tref)
    message, waiting_goals, fields,                 \* the arguments of the response builders
    handlers, aliases, tool_name, sexpr, invoked,   \* Router, route(tool_name, sexpr)
    handler, alias, canonical,                      \* register(tool_name, handler), register_alias(alias, canonical)
    replaced, registered,                           \* what insert returned, the names registered so far
    content, section_heading,                       \* extract_section(content, section_heading)
    section_headings,                               \* extract_sections(content, section_headings)
    progress_snapshots, conn, upserts, clock, lock_log,
                                                    \* SqlitePersistence and its callers
    loop_pc, prompts, raw, pending, history, add_history, calls, control,
                                                    \* run_line_loop
    tree, held,                                     \* a parsed tree shared by callers, the value a caller got back
    text,                                           \* the text an operation has written
    op,                                             \* the operation last applied
    res                                             \* its result

fmtVars == <<message, waiting_goals, fields>>

routerVars ==
    <<handlers, aliases, tool_name, sexpr, invoked, handler, alias, canonical,
      replaced, registered>>

mdVars == <<content, section_heading, section_headings>>

sqlVars == <<progress_snapshots, conn, upserts, clock, lock_log>>

loopVars == <<loop_pc, prompts, raw, pending, history, add_history, calls, control>>

frameVars == <<tree, held>>

vars ==
    <<root, key, value, tref, fmtVars, routerVars, mdVars, sqlVars, loopVars,
      frameVars, text, op, res>>

(***************************************************************************)
(* Bounds of the model.                                                    *)
(***************************************************************************)
\* The greatest number of elements after the tag in a tool-call form.
MaxLen == 4

\* The width in bits of the integers standing for i64 and u64.
IntBits == 8

\* The greatest length of the payload of a TextRef.
MaxStr == 3

\* The greatest number of elements of a list given to parse_text_ref and
\* parse_str_list.
MaxItems == 3

\* The greatest number of fields given to a response builder.
MaxFields == 2

\* The greatest number of waiting goals, and of fragments given to
\* render_list.
MaxGoals == 2

\* The greatest number of lines of a markdown content.
MaxLines == 3

\* The greatest number of headings given to extract_sections.
MaxHeadings == 2

\* The greatest number of calls of upsert_progress_snapshot.
MaxCalls == 3

\* The greatest reading of the system clock, in seconds.
MaxClock == 2

\* The greatest number of prompts of one run of the line loop.
MaxPrompts == 3

(***************************************************************************)
(* lexpr::Value: the variants the code inspects.                           *)
(***************************************************************************)
Nil == [t |-> "nil"]

Str(s) == [t |-> "str", s |-> s]

Sym(s) == [t |-> "sym", s |-> s]

Kw(s) == [t |-> "kw", s |-> s]

Bool(b) == [t |-> "bool", b |-> b]

Num(n) == [t |-> "int", n |-> n]

Cons(a, d) == [t |-> "cons", car |-> a, cdr |-> d]

\* Value::as_cons, as a test.
IsCons(v) == v.t = "cons"

\* The proper list of the elements of the sequence s, ending in the tail tl.
RECURSIVE ListWithTail(_, _)
ListWithTail(s, tl) ==
    IF s = <<>> THEN tl ELSE Cons(Head(s), ListWithTail(Tail(s), tl))

List(s) == ListWithTail(s, Nil)

(***************************************************************************)
(* Result<Option<T>> and Result<T>.  An error carries its chain of         *)
(* messages, outermost context first, root cause last.                     *)
(***************************************************************************)
OkNone == [k |-> "none"]

OkSome(v) == [k |-> "some", v |-> v]

Ok(v) == [k |-> "ok", v |-> v]

Err(m) == [k |-> "err", chain |-> <<m>>]

IsErr(r) == r.k = "err"

\* anyhow's with_context / context: wraps an error, leaves a success alone.
with_context(r, m) == IF IsErr(r) THEN [r EXCEPT !.chain = <<m>> \o @] ELSE r

\* The root cause of an error.
RootCause(r) == r.chain[Len(r.chain)]

(***************************************************************************)
(* normalize_kw: the keyword name of an atom, <<name>> for Some(name) and  *)
(* <<>> for None.                                                          *)
(***************************************************************************)
\* str::strip_prefix(':').unwrap_or(sym)
StripMarker(sym) ==
    IF Len(sym) > 0 /\ Head(sym) = ":" THEN Tail(sym) ELSE sym

\* A normalization that also reads a string atom as a keyword name.
normalize_kw_str(k) ==
    IF k.t = "sym" THEN <<StripMarker(k.s)>>
    ELSE IF k.t \in {"kw", "str"} THEN <<k.s>>
    ELSE <<>>

normalize_kw(k) ==
    IF k.t = "sym" THEN <<StripMarker(k.s)>>
    ELSE IF k.t = "kw" THEN <<k.s>>
    ELSE <<>>

(***************************************************************************)
(* get_kw_value: the loop over cur, from the cdr of the root.              *)
(***************************************************************************)
\* A walk that keeps going after a match and lets a later pair win.
RECURSIVE kw_walk_last(_, _)
kw_walk_last(cur, name) ==
    IF ~IsCons(cur) THEN OkNone
    ELSE LET found == normalize_kw(cur.car)
         IN  IF found = <<>> THEN OkNone
             ELSE IF ~IsCons(cur.cdr)
                  THEN Err("expected value after keyword")
                  ELSE LET later == kw_walk_last(cur.cdr.cdr, name)
                       IN  IF found[1] = name /\ later.k # "some"
                           THEN OkSome(cur.cdr.car)
                           ELSE later

\* A walk that treats a keyword without a value as the end of the pairs.
RECURSIVE kw_walk_lenient(_, _)
kw_walk_lenient(cur, name) ==
    IF ~IsCons(cur) THEN OkNone
    ELSE LET found == normalize_kw(cur.car)
         IN  IF found = <<>> THEN OkNone
             ELSE IF ~IsCons(cur.cdr)
                  THEN OkNone
                  ELSE IF found[1] = name
                       THEN OkSome(cur.cdr.car)
                       ELSE kw_walk_lenient(cur.cdr.cdr, name)

\* A walk that steps over an element without a keyword name.
RECURSIVE kw_walk_skip(_, _)
kw_walk_skip(cur, name) ==
    IF ~IsCons(cur) THEN OkNone
    ELSE LET found == normalize_kw(cur.car)
         IN  IF found = <<>> THEN kw_walk_skip(cur.cdr, name)
             ELSE IF ~IsCons(cur.cdr)
                  THEN Err("expected value after keyword")
                  ELSE IF found[1] = name
                       THEN OkSome(cur.cdr.car)
                       ELSE kw_walk_skip(cur.cdr.cdr, name)

\* A walk that goes on with the value of a pair that did not match.
RECURSIVE kw_walk_sliding(_, _)
kw_walk_sliding(cur, name) ==
    IF ~IsCons(cur) THEN OkNone
    ELSE LET found == normalize_kw(cur.car)
         IN  IF found = <<>> THEN OkNone
             ELSE IF ~IsCons(cur.cdr)
                  THEN Err("expected value after keyword")
                  ELSE IF found[1] = name
                       THEN OkSome(cur.cdr.car)
                       ELSE kw_walk_sliding(cur.cdr, name)

RECURSIVE kw_walk(_, _)
kw_walk(cur, name) ==
    IF ~IsCons(cur) THEN OkNone
    ELSE LET found == normalize_kw(cur.car)
         IN  IF found = <<>> THEN OkNone
             ELSE IF ~IsCons(cur.cdr)
                  THEN Err("expected value after keyword")
                  ELSE IF found[1] = name
                       THEN OkSome(cur.cdr.car)
                       ELSE kw_walk(cur.cdr.cdr, name)

\* A lookup that reports a root that is no list as an absent keyword.
get_kw_value_lenient(r, name) ==
    IF ~IsCons(r) THEN OkNone
    ELSE kw_walk(r.cdr, name)

get_kw_value(r, name) ==
    IF ~IsCons(r) THEN Err("expected list (tool call form)")
    ELSE kw_walk(r.cdr, name)

(***************************************************************************)
(* The string accessors of the core.                                       *)
(***************************************************************************)
\* A string accessor that reports a value of the wrong type as absent.
get_kw_str_lenient(r, name) ==
    LET g == get_kw_value(r, name)
    IN  IF IsErr(g) THEN g
        ELSE IF g.k = "none" THEN OkNone
        ELSE IF g.v.t = "str" THEN OkSome(g.v.s)
        ELSE OkNone

get_kw_str(r, name) ==
    LET g == get_kw_value(r, name)
    IN  IF IsErr(g) THEN g
        ELSE IF g.k = "none" THEN OkNone
        ELSE IF g.v.t = "str" THEN OkSome(g.v.s)
        ELSE Err(":{} must be a string")

\* A required accessor that gives the empty string for a missing keyword.
require_kw_str_default(r, name) ==
    LET g == get_kw_str(r, name)
    IN  IF IsErr(g) THEN g
        ELSE IF g.k = "none" THEN Ok(<<>>)
        ELSE Ok(g.v)

require_kw_str(r, name) ==
    LET g == get_kw_str(r, name)
    IN  IF IsErr(g) THEN g
        ELSE IF g.k = "none" THEN Err("missing required keyword :{}")
        ELSE Ok(g.v)

(***************************************************************************)
(* extract::args: the typed accessors.                                     *)
(***************************************************************************)
require_string(v, name) ==
    with_context(require_kw_str(v, name), "Missing required keyword :{}")

get_string(v, name) ==
    with_context(get_kw_str(v, name), "Error extracting keyword :{}")

require_value(v, name) ==
    LET g == get_kw_value(v, name)
    IN  IF IsErr(g) THEN g
        ELSE IF g.k = "none" THEN Err("Missing required keyword :{}")
        ELSE Ok(g.v)

get_value(v, name) == get_kw_value(v, name)

True == <<"t", "r", "u", "e">>

False == <<"f", "a", "l", "s", "e">>

\* A get_bool that also takes 1, yes and other spellings of true for true.
get_bool_truthy(v, name) ==
    LET g == get_kw_value(v, name)
    IN  IF IsErr(g) THEN g
        ELSE IF g.k = "none" THEN OkNone
        ELSE IF g.v.t = "bool" THEN OkSome(g.v.b)
        ELSE IF g.v.t \in {"str", "sym"} /\ g.v.s = False THEN OkSome(FALSE)
        ELSE OkSome(TRUE)

get_bool(v, name) ==
    LET g == get_kw_value(v, name)
    IN  IF IsErr(g) THEN g
        ELSE IF g.k = "none" THEN OkNone
        ELSE IF g.v.t = "bool" THEN OkSome(g.v.b)
        ELSE IF g.v.t = "str" /\ g.v.s = True THEN OkSome(TRUE)
        ELSE IF g.v.t = "str" /\ g.v.s = False THEN OkSome(FALSE)
        ELSE IF g.v.t = "sym" /\ g.v.s = True THEN OkSome(TRUE)
        ELSE IF g.v.t = "sym" /\ g.v.s = False THEN OkSome(FALSE)
        ELSE Err(":{} must be a boolean (true/false), got: {:?}")

\* i64::MIN, i64::MAX and u64::MAX at the width of the model.
I64Min == -(2 ^ (IntBits - 1))

I64Max == 2 ^ (IntBits - 1) - 1

U64Max == 2 ^ IntBits - 1

\* Value::as_i64 and Value::as_u64 on an integer atom, <<n>> or <<>>.
as_i64(v) == IF v.t = "int" /\ v.n >= I64Min /\ v.n <= I64Max THEN <<v.n>> ELSE <<>>

as_u64(v) == IF v.t = "int" /\ v.n >= 0 /\ v.n <= U64Max THEN <<v.n>> ELSE <<>>

\* n as i64, for an unsigned n: the same bits read as two's complement.
u64_as_i64(n) == IF n > I64Max THEN n - 2 ^ IntBits ELSE n

DigitChars == <<"0", "1", "2", "3", "4", "5", "6", "7", "8", "9">>

IsDigit(c) == \E d \in 1..10 : DigitChars[d] = c

DigitVal(c) == (CHOOSE d \in 1..10 : DigitChars[d] = c) - 1

\* The digit loop of str::parse::<i64>: checked multiply and add (subtract
\* for a negative number), <<>> on a character that is no digit or on
\* overflow.
RECURSIVE parse_digits(_, _, _)
parse_digits(s, acc, neg) ==
    IF s = <<>> THEN <<acc>>
    ELSE IF ~IsDigit(Head(s)) THEN <<>>
    ELSE LET nxt == IF neg THEN acc * 10 - DigitVal(Head(s))
                           ELSE acc * 10 + DigitVal(Head(s))
         IN  IF nxt < I64Min \/ nxt > I64Max THEN <<>>
             ELSE parse_digits(Tail(s), nxt, neg)

\* str::parse::<i64>: an optional sign, then at least one digit.
parse_i64(s) ==
    IF s = <<>> THEN <<>>
    ELSE IF Head(s) \in {"+", "-"}
         THEN IF Tail(s) = <<>> THEN <<>>
              ELSE parse_digits(Tail(s), 0, Head(s) = "-")
         ELSE parse_digits(s, 0, FALSE)

get_int(v, name) ==
    LET g == get_kw_value(v, name)
    IN  IF IsErr(g) THEN g
        ELSE IF g.k = "none" THEN OkNone
        ELSE IF as_i64(g.v) # <<>> THEN OkSome(as_i64(g.v)[1])
        ELSE IF as_u64(g.v) # <<>> THEN OkSome(u64_as_i64(as_u64(g.v)[1]))
        ELSE IF g.v.t = "str" /\ parse_i64(g.v.s) # <<>>
             THEN OkSome(parse_i64(g.v.s)[1])
        ELSE Err(":{} must be an integer, got: {:?}")

\* A get_uint without the sign check.
get_uint_unchecked(v, name) ==
    LET g == get_int(v, name)
    IN  IF IsErr(g) THEN g
        ELSE IF g.k = "none" THEN OkNone
        ELSE OkSome(g.v)

get_uint(v, name) ==
    LET g == get_int(v, name)
    IN  IF IsErr(g) THEN g
        ELSE IF g.k = "none" THEN OkNone
        ELSE IF g.v >= 0 THEN OkSome(g.v)
        ELSE Err(":{} must be a non-negative integer, got: {}")

(***************************************************************************)
(* iter_list and parse_str_list.                                           *)
(***************************************************************************)
\* The loop of iter_list: the car of every cell reached through cdr.
RECURSIVE iter_items(_)
iter_items(cur) ==
    IF IsCons(cur) THEN <<cur.car>> \o iter_items(cur.cdr) ELSE <<>>

iter_list(v) == Ok(iter_items(v))

\* The loop of parse_str_list over the items, out being the strings so far.
RECURSIVE str_items(_, _)
str_items(items, out) ==
    IF items = <<>> THEN Ok(out)
    ELSE IF Head(items).t # "str" THEN Err("expected string item in list")
    ELSE str_items(Tail(items), Append(out, Head(items).s))

parse_str_list(v) ==
    LET it == iter_list(v)
    IN  IF IsErr(it) THEN it ELSE str_items(it.v, <<>>)

extract_string_list(v) ==
    with_context(parse_str_list(v), "Failed to parse string list")

(***************************************************************************)
(* TextRef, parse_text_ref and render_text_ref.                            *)
(***************************************************************************)
Literal(s) == [variant |-> "Literal", s |-> s]

UsePath(s) == [variant |-> "UsePath", s |-> s]

Use == <<"u", "s", "e">>

parse_text_ref(v) ==
    IF v.t = "str" THEN Ok(Literal(v.s))
    ELSE IF ~IsCons(v) THEN Err("expected string or (use \"path\")")
    ELSE IF v.car.t # "sym" THEN Err("expected (use \"path\")")
    ELSE IF v.car.s # Use THEN Err("expected (use \"path\")")
    ELSE IF ~IsCons(v.cdr) THEN Err("(use ...) missing argument")
    ELSE IF v.cdr.car.t # "str" THEN Err("(use ...) path must be a string")
    ELSE Ok(UsePath(v.cdr.car.s))

\* The characters quote_str escapes.
Backslash == "\\"

Quote == "\""

Newline == "\n"

\* An escaping that leaves a backslash as it is.
RECURSIVE quote_chars_raw_backslash(_)
quote_chars_raw_backslash(s) ==
    IF s = <<>> THEN <<>>
    ELSE (CASE Head(s) = Quote -> <<Backslash, Quote>>
            [] Head(s) = Newline -> <<Backslash, "n">>
            [] OTHER -> <<Head(s)>>) \o quote_chars_raw_backslash(Tail(s))

\* An escaping that escapes the backslash of an escape once more.
RECURSIVE quote_chars_rescaped(_)
quote_chars_rescaped(s) ==
    IF s = <<>> THEN <<>>
    ELSE (CASE Head(s) = Backslash -> <<Backslash, Backslash>>
            [] Head(s) = Quote -> <<Backslash, Backslash, Backslash, Quote>>
            [] Head(s) = Newline -> <<Backslash, Backslash, "n">>
            [] OTHER -> <<Head(s)>>) \o quote_chars_rescaped(Tail(s))

\* An escaping that leaves a quote as it is.
RECURSIVE quote_chars_raw_quote(_)
quote_chars_raw_quote(s) ==
    IF s = <<>> THEN <<>>
    ELSE (CASE Head(s) = Backslash -> <<Backslash, Backslash>>
            [] Head(s) = Newline -> <<Backslash, "n">>
            [] OTHER -> <<Head(s)>>) \o quote_chars_raw_quote(Tail(s))

\* The loop of quote_str over the characters of s.
RECURSIVE quote_chars(_)
quote_chars(s) ==
    IF s = <<>> THEN <<>>
    ELSE (CASE Head(s) = Backslash -> <<Backslash, Backslash>>
            [] Head(s) = Quote -> <<Backslash, Quote>>
            [] Head(s) = Newline -> <<Backslash, "n">>
            [] OTHER -> <<Head(s)>>) \o quote_chars(Tail(s))

quote_str(s) == <<Quote>> \o quote_chars(s) \o <<Quote>>

render_text_ref(r) ==
    IF r.variant = "Literal" THEN quote_str(r.s)
    ELSE <<"(", "u", "s", "e", " ">> \o quote_str(r.s) \o <<")">>

(***************************************************************************)
(* render_list and the response builders of format::response.              *)
(***************************************************************************)
\* A join that ends every fragment with the separator.
RECURSIVE join_trailing(_, _)
join_trailing(frags, sep) ==
    IF frags = <<>> THEN <<>>
    ELSE frags[1] \o sep \o join_trailing(Tail(frags), sep)

\* [String]::join(sep)
RECURSIVE join(_, _)
join(frags, sep) ==
    IF frags = <<>> THEN <<>>
    ELSE IF Len(frags) = 1 THEN frags[1]
    ELSE frags[1] \o sep \o join(Tail(frags), sep)

render_list(items) == join(items, <<" ">>)

serialize_string_list(items) ==
    render_list([i \in 1..Len(items) |-> quote_str(items[i])])

\* format!(":{} {}", key, quote_str(value)) for every field <<key, value>>.
field_strs(fs) ==
    [i \in 1..Len(fs) |-> <<":">> \o fs[i][1] \o <<" ">> \o quote_str(fs[i][2])]

format_success(fs) ==
    <<"(", "s", "u", "c", "c", "e", "s", "s", " ">> \o join(field_strs(fs), <<" ">>) \o <<")">>

format_error(msg) ==
    <<"(", "e", "r", "r", "o", "r", " ">> \o quote_str(msg) \o <<")">>

format_complete(fs) ==
    IF fs = <<>> THEN <<"(", "c", "o", "m", "p", "l", "e", "t", "e", ")">>
    ELSE <<"(", "c", "o", "m", "p", "l", "e", "t", "e", " ">> \o join(field_strs(fs), <<" ">>) \o <<")">>

format_blocked(goals, fs) ==
    LET goals_str == serialize_string_list(goals)
    IN  IF field_strs(fs) = <<>>
        THEN <<"(", "b", "l", "o", "c", "k", "e", "d", " ", ":", "w", "a", "i", "t", "i", "n", "g", "-", "g", "o", "a", "l", "s", " ", "(">> \o goals_str \o <<")", ")">>
        ELSE <<"(", "b", "l", "o", "c", "k", "e", "d", " ", ":", "w", "a", "i", "t", "i", "n", "g", "-", "g", "o", "a", "l", "s", " ", "(">> \o goals_str \o <<")", " ">>
                 \o join(field_strs(fs), <<" ">>) \o <<")">>

(***************************************************************************)
(* Router of router::patterns.  A HashMap is a function on the names with  *)
(* "none" for an absent key; a handler is named by the closure registered. *)
(***************************************************************************)
\* The closures registered as handlers: two that succeed, one that fails.
Handlers == {"h1", "h2", "hfail"}

\* handler(sexpr): what the closure h returns on the arguments arg.
call_handler(h, arg) ==
    IF h = "hfail" THEN Err(<<"handler failed", arg>>) ELSE Ok(<<h, arg>>)

\* A resolution that takes the requested name as the canonical name.
canonical_name_unaliased(al, name) == name

\* A resolution that resolves the target of an alias once more.
canonical_name_twice(al, name) ==
    IF al[name] = "none" THEN name
    ELSE IF al[al[name]] = "none" THEN al[name] ELSE al[al[name]]

\* self.aliases.get(tool_name).map(|s| s.as_str()).unwrap_or(tool_name)
canonical_name(al, name) == IF al[name] # "none" THEN al[name] ELSE name

\* The orders a HashMap may yield the keys of the set in.
Orders(S) ==
    {f \in [1..Cardinality(S) -> S] : \A i, j \in 1..Cardinality(S) : f[i] = f[j] => i = j}

\* A tool_names that lists the keys of the alias table too.
tool_names_and_aliases(hs, al) ==
    Orders({n \in DOMAIN hs : hs[n] # "none" \/ al[n] # "none"})

\* self.handlers.keys().cloned().collect(): the possible results.
tool_names(hs, al) == Orders({n \in DOMAIN hs : hs[n] # "none"})

\* A has_tool that looks the requested name up directly.
has_tool_direct(hs, al, name) == hs[name] # "none"

has_tool(hs, al, name) == hs[canonical_name(al, name)] # "none"

\* Router::route: its result and the handler calls it has made.
route(hs, al, name, arg) ==
    LET c == canonical_name(al, name)
    IN  IF hs[c] = "none"
        THEN [res |-> Err(<<"Unknown tool: {}", name>>), invoked |-> <<>>]
        ELSE [res |-> with_context(call_handler(hs[c], arg),
                                   <<"Error executing tool: {}", name>>),
              invoked |-> <<<<hs[c], arg>>>>]

(***************************************************************************)
(* extract_section of prompt::markdown.                                    *)
(***************************************************************************)
Range(f) == {f[i] : i \in DOMAIN f}

\* str::lines: the pieces between newlines; a final newline ends the last
\* line and starts no empty one.
RECURSIVE lines_from(_, _, _)
lines_from(s, cur, acc) ==
    IF s = <<>> THEN (IF cur = <<>> THEN acc ELSE Append(acc, cur))
    ELSE IF Head(s) = Newline THEN lines_from(Tail(s), <<>>, Append(acc, cur))
    ELSE lines_from(Tail(s), Append(cur, Head(s)), acc)

lines(s) == lines_from(s, <<>>, <<>>)

Whitespace == {" ", Newline, "\t"}

RECURSIVE trim_start(_)
trim_start(s) ==
    IF s # <<>> /\ Head(s) \in Whitespace THEN trim_start(Tail(s)) ELSE s

RECURSIVE trim_end(_)
trim_end(s) ==
    IF s # <<>> /\ s[Len(s)] \in Whitespace
    THEN trim_end(SubSeq(s, 1, Len(s) - 1)) ELSE s

\* A trim of the end only.
trim_end_only(s) == trim_end(s)

\* str::trim
trim(s) == trim_end(trim_start(s))

\* s.chars().take_while(|&c| c == '#').count()
RECURSIVE leading_hashes(_)
leading_hashes(s) ==
    IF s # <<>> /\ Head(s) = "#" THEN 1 + leading_hashes(Tail(s)) ELSE 0

\* Iterator::position over ls[from..]: the least index at or after from
\* whose line is in the set hit, 0 for None.
position(ls, from, hit) ==
    IF \E i \in from..Len(ls) : ls[i] \in hit
    THEN CHOOSE i \in from..Len(ls) :
             ls[i] \in hit /\ \A j \in from..(i - 1) : ls[j] \notin hit
    ELSE 0

extract_section(c, heading) ==
    LET ls == lines(c)
        heading_level == leading_hashes(heading)
        start_idx == position(ls, 1, {l \in Range(ls) : trim(l) = trim(heading)})
        ends == {l \in Range(ls) :
                    /\ trim(l) # <<>> /\ Head(trim(l)) = "#"
                    /\ leading_hashes(trim(l)) <= heading_level}
        found == position(ls, start_idx + 1, ends)
        end_idx == IF found = 0 THEN Len(ls) + 1 ELSE found
    IN  IF start_idx = 0 THEN Err(<<"Section not found: {}", heading>>)
        ELSE Ok(join(SubSeq(ls, start_idx, end_idx - 1), <<Newline>>))

\* An extract_sections that skips a heading it does not find.
RECURSIVE sections_skipping(_, _, _)
sections_skipping(c, hs, result) ==
    IF hs = <<>> THEN Ok(join(result, <<Newline, Newline>>))
    ELSE LET section == extract_section(c, hs[1])
         IN  IF IsErr(section) THEN sections_skipping(c, Tail(hs), result)
             ELSE sections_skipping(c, Tail(hs), Append(result, section.v))

\* The loop of extract_sections over the headings left, result being the
\* sections pushed so far; the ? returns the first error.
RECURSIVE sections_loop(_, _, _)
sections_loop(c, hs, result) ==
    IF hs = <<>> THEN Ok(join(result, <<Newline, Newline>>))
    ELSE LET section == extract_section(c, hs[1])
         IN  IF IsErr(section) THEN section
             ELSE sections_loop(c, Tail(hs), Append(result, section.v))

extract_sections(c, hs) == sections_loop(c, hs, <<>>)

(***************************************************************************)
(* SqlitePersistence of persistence::sqlite.  The table progress_snapshots *)
(* is a set of rows; the connection mutex is held by a caller or by none.  *)
(***************************************************************************)
\* The row an upsert writes.
snapshot_row(snap, updated_at) ==
    [internal_id |-> snap.internal_id, updated_at |-> updated_at,
     event |-> snap.event, snapshot_text |-> snap.snapshot_text]

\* A plain INSERT, without the ON CONFLICT clause, into a table without key.
insert_row(rows, snap, updated_at) == rows \cup {snapshot_row(snap, updated_at)}

\* INSERT ... ON CONFLICT(internal_id) DO NOTHING.
insert_or_ignore(rows, snap, updated_at) ==
    IF \E r \in rows : r.internal_id = snap.internal_id THEN rows
    ELSE rows \cup {snapshot_row(snap, updated_at)}

\* INSERT ... ON CONFLICT(internal_id) DO UPDATE SET updated_at, event,
\* snapshot_text: the row of the id is updated in place, or inserted.
upsert_row(rows, snap, updated_at) ==
    IF \E r \in rows : r.internal_id = snap.internal_id
    THEN {IF r.internal_id = snap.internal_id
          THEN [r EXCEPT !.updated_at = updated_at, !.event = snap.event,
                         !.snapshot_text = snap.snapshot_text]
          ELSE r : r \in rows}
    ELSE rows \cup {snapshot_row(snap, updated_at)}

(***************************************************************************)
(* run_line_loop of interactive::line_loop.                                *)
(***************************************************************************)
\* The errors readline returns.
ReadlineErrors == {"Interrupted", "Eof", "Io", "WindowResized"}

classify_readline_error(e) ==
    CASE e = "Interrupted" -> "Interrupted"
      [] e = "Eof" -> "Eof"
      [] OTHER -> "Other"

OkUnit == Ok("()")

\* A loop that goes on whatever the callback returns.
after_control_deaf(ctl) == "prompt"

\* Where the loop goes after a callback has returned the LoopControl ctl: to
\* the next prompt, or out of the loop.
after_control(ctl) == IF ctl = "Break" THEN "returned" ELSE "prompt"

(***************************************************************************)
(* What a caller gets back from a lookup on a tree it shares: the value,   *)
(* whether it is the cell of the tree itself, and which cell it came from. *)
(***************************************************************************)
\* The place, among the elements after the tag, of the value get_kw_value
\* returns, i being the place of the head of cur; 0 when it returns none.
RECURSIVE kw_walk_cell(_, _, _)
kw_walk_cell(cur, name, i) ==
    IF ~IsCons(cur) THEN 0
    ELSE LET found == normalize_kw(cur.car)
         IN  IF found = <<>> \/ ~IsCons(cur.cdr) THEN 0
             ELSE IF found[1] = name THEN i + 1
             ELSE kw_walk_cell(cur.cdr.cdr, name, i + 2)

\* Handing out the cell of the tree itself instead of a copy.
borrow_value(v, cell) == [v |-> v, alias |-> TRUE, cell |-> cell]

\* v.clone(): the caller owns what it gets.
clone_value(v, cell) == [v |-> v, alias |-> FALSE, cell |-> cell]

\* The list with its p-th element replaced.
RECURSIVE set_nth(_, _, _)
set_nth(list, p, v) ==
    IF p = 1 THEN Cons(v, list.cdr)
    ELSE Cons(list.car, set_nth(list.cdr, p - 1, v))

(***************************************************************************)
(* parse_value: the reader of the lexpr crate, for the text the core       *)
(* writes: lists, string literals with the escapes \\, \" and \n, and      *)
(* symbols.  A read gives [ok, v, rest].                                   *)
(***************************************************************************)
ReadFail == [ok |-> FALSE]

ReadOk(v, rest) == [ok |-> TRUE, v |-> v, rest |-> rest]

RECURSIVE skip_ws(_)
skip_ws(s) ==
    IF s # <<>> /\ Head(s) \in {" ", Newline} THEN skip_ws(Tail(s)) ELSE s

\* A string literal after its opening quote, acc being its characters so far.
RECURSIVE read_string(_, _)
read_string(s, acc) ==
    IF s = <<>> THEN ReadFail
    ELSE IF Head(s) = Quote THEN ReadOk(Str(acc), Tail(s))
    ELSE IF Head(s) = Backslash
         THEN IF Len(s) < 2 THEN ReadFail
              ELSE IF s[2] = Backslash
                   THEN read_string(SubSeq(s, 3, Len(s)), Append(acc, Backslash))
              ELSE IF s[2] = Quote
                   THEN read_string(SubSeq(s, 3, Len(s)), Append(acc, Quote))
              ELSE IF s[2] = "n"
                   THEN read_string(SubSeq(s, 3, Len(s)), Append(acc, Newline))
              ELSE ReadFail
    ELSE read_string(Tail(s), Append(acc, Head(s)))

Delimiters == {" ", Newline, "(", ")", Quote}

\* A symbol: the characters up to the next delimiter.
RECURSIVE read_symbol(_, _)
read_symbol(s, acc) ==
    IF s = <<>> \/ Head(s) \in Delimiters THEN ReadOk(Sym(acc), s)
    ELSE read_symbol(Tail(s), Append(acc, Head(s)))

RECURSIVE read_value(_)
RECURSIVE read_list(_, _)
read_value(s0) ==
    LET s == skip_ws(s0)
    IN  IF s = <<>> THEN ReadFail
        ELSE IF Head(s) = "(" THEN read_list(Tail(s), <<>>)
        ELSE IF Head(s) = ")" THEN ReadFail
        ELSE IF Head(s) = Quote THEN read_string(Tail(s), <<>>)
        ELSE read_symbol(s, <<>>)

\* The elements of a list after its opening parenthesis.
read_list(s0, acc) ==
    LET s == skip_ws(s0)
    IN  IF s = <<>> THEN ReadFail
        ELSE IF Head(s) = ")" THEN ReadOk(List(acc), Tail(s))
        ELSE LET e == read_value(s)
             IN  IF ~e.ok THEN ReadFail
                 ELSE read_list(e.rest, Append(acc, e.v))

parse_value(input) ==
    LET r == read_value(input)
    IN  IF r.ok /\ skip_ws(r.rest) = <<>> THEN Ok(r.v)
        ELSE with_context(Err("parse error"), "failed to parse s-expression")

(***************************************************************************)
(* The inputs of the keyword walk.                                         *)
(***************************************************************************)
Tag == Sym(<<"t", "o", "o", "l">>)

\* The elements a form is built from: marked symbols, a bare symbol, a
\* native keyword, a string, integers and a nested list.
Elems ==
    { Sym(<<":", "a">>), Sym(<<":", "b">>), Sym(<<"a">>), Kw(<<"b">>),
      Str(<<"a">>), Num(1), Num(2), List(<<Str(<<"a">>)>>) }

RECURSIVE SeqsUpTo(_, _)
SeqsUpTo(S, n) ==
    IF n = 0 THEN {<<>>}
    ELSE LET shorter == SeqsUpTo(S, n - 1)
         IN  shorter \cup {Append(s, e) : s \in {x \in shorter : Len(x) = n - 1}, e \in S}

Forms == {Cons(Tag, List(s)) : s \in SeqsUpTo(Elems, MaxLen)}

NonListRoots == {Nil, Str(<<"p", "o", "s">>), Num(1), Sym(<<":", "a">>)}

Keys == {<<"a">>, <<"b">>}

NoRef == [t |-> "noref"]

\* The names a Router is asked about, and "none" for an absent entry of a
\* HashMap.
Names == {"t1", "t2", "t3"}

\* No response is being built.
IdleFmt == message = <<>> /\ waiting_goals = <<>> /\ fields = <<>>

\* Router::new(), and no call of route made.
IdleRouter ==
    /\ handlers = [n \in Names |-> "none"]
    /\ aliases = [n \in Names |-> "none"]
    /\ tool_name = "none" /\ sexpr = "none" /\ invoked = <<>>
    /\ handler = "none" /\ alias = "none" /\ canonical = "none"
    /\ replaced = "none" /\ registered = {}

\* No document is being read.
IdleMd == content = <<>> /\ section_heading = <<>> /\ section_headings = <<>>

\* The callers of one SqlitePersistence and its clones.
Callers == {"c1", "c2"}

\* No SqlitePersistence is open.
IdleSql ==
    /\ progress_snapshots = {}
    /\ conn = "none"
    /\ upserts = [c \in Callers |-> [pc |-> "idle"]]
    /\ clock = 0
    /\ lock_log = <<>>

\* run_line_loop has not been called.
IdleLoop ==
    /\ loop_pc = "idle" /\ prompts = 0 /\ raw = <<>> /\ pending = <<>>
    /\ history = <<>> /\ add_history = FALSE /\ calls = <<>>
    /\ control = "none"

\* No tree is shared.
IdleFrame == tree = Nil /\ held = <<>>

Init ==
    /\ root \in Forms \cup NonListRoots
    /\ key \in Keys
    /\ value = Nil
    /\ tref = NoRef
    /\ text = <<>>
    /\ op = "none"
    /\ res = OkNone
    /\ IdleFmt /\ IdleRouter /\ IdleMd /\ IdleSql /\ IdleLoop /\ IdleFrame

GetKwValue ==
    /\ op = "none"
    /\ op' = "get_kw_value"
    /\ res' = get_kw_value(root, key)
    /\ UNCHANGED <<root, key, value, tref, text, fmtVars, routerVars, mdVars, sqlVars, loopVars, frameVars>>

Next == GetKwValue

Spec == Init /\ [][Next]_vars

(***************************************************************************)
(* The inputs of the typed accessors: forms of one or two pairs whose      *)
(* values cover every representation the accessors tell apart.             *)
(***************************************************************************)
TypedVals ==
    { Str(True), Str(False), Str(<<"y", "e", "s">>), Str(<<"4", "2">>),
      Str(<<"-", "5">>), Str(<<"a", "b", "c">>), Str(<<>>),
      Str(<<"T", "r", "u", "e">>), Str(<<"+", "7">>), Str(<<"4", "x">>),
      Sym(True), Sym(False), Sym(<<"m", "a", "y", "b", "e">>),
      Sym(<<"F", "A", "L", "S", "E">>), Sym(<<"4", "2">>), Kw(True),
      Bool(TRUE), Bool(FALSE),
      Num(0), Num(1), Num(42), Num(-1), Num(I64Min), Num(I64Max),
      Num(I64Max + 1), Num(U64Max),
      List(<<Str(<<"x">>)>>), Nil }

KeyAtoms == {Sym(<<":", "a">>), Sym(<<":", "b">>)}

AccArgs ==
    {<<>>}
    \cup {<<k, v>> : k \in KeyAtoms, v \in TypedVals}
    \cup {<<k0, Str(<<"x">>), k, v>> : k0 \in KeyAtoms, k \in KeyAtoms, v \in TypedVals}

AccForms == {Cons(Tag, List(s)) : s \in AccArgs}

InitAcc ==
    /\ root \in AccForms \cup NonListRoots
    /\ key \in Keys
    /\ value = Nil
    /\ tref = NoRef
    /\ text = <<>>
    /\ op = "none"
    /\ res = OkNone
    /\ IdleFmt /\ IdleRouter /\ IdleMd /\ IdleSql /\ IdleLoop /\ IdleFrame

\* One call of an accessor on the form.
Call(name, result) ==
    /\ op = "none"
    /\ op' = name
    /\ res' = result
    /\ UNCHANGED <<root, key, value, tref, text, fmtVars, routerVars, mdVars, sqlVars, loopVars, frameVars>>

GetKwStr == Call("get_kw_str", get_kw_str(root, key))

RequireKwStr == Call("require_kw_str", require_kw_str(root, key))

RequireString == Call("require_string", require_string(root, key))

GetString == Call("get_string", get_string(root, key))

RequireValue == Call("require_value", require_value(root, key))

GetValue == Call("get_value", get_value(root, key))

GetBool == Call("get_bool", get_bool(root, key))

GetInt == Call("get_int", get_int(root, key))

GetUint == Call("get_uint", get_uint(root, key))

NextAcc ==
    \/ GetKwValue
    \/ GetKwStr
    \/ RequireKwStr
    \/ RequireString
    \/ GetString
    \/ RequireValue
    \/ GetValue
    \/ GetBool
    \/ GetInt
    \/ GetUint

SpecAcc == InitAcc /\ [][NextAcc]_vars

(***************************************************************************)
(* The inputs of the text operations: values given to parse_text_ref and   *)
(* parse_str_list, and TextRefs given to render_text_ref.                  *)
(***************************************************************************)
ItemElems ==
    { Sym(Use), Sym(<<"x">>), Str(<<"a">>), Str(<<"b">>), Num(1) }

TextValues ==
    {ListWithTail(s, tl) : s \in SeqsUpTo(ItemElems, MaxItems),
                           tl \in {Nil, Str(<<"a">>), Num(1)}}

PayloadChars == {"a", "n", Quote, Backslash, Newline, " ", "(", ")"}

TextRefs ==
    {Literal(s) : s \in SeqsUpTo(PayloadChars, MaxStr)}
    \cup {UsePath(s) : s \in SeqsUpTo(PayloadChars, MaxStr)}

InitText ==
    /\ root = Nil
    /\ key = <<>>
    /\ \/ value \in TextValues /\ tref = NoRef
       \/ value = Nil /\ tref \in TextRefs
    /\ text = <<>>
    /\ op = "none"
    /\ res = OkNone
    /\ IdleFmt /\ IdleRouter /\ IdleMd /\ IdleSql /\ IdleLoop /\ IdleFrame

\* parse_text_ref on a value given by the caller, or on the value parsed
\* from a rendered TextRef.
ParseTextRef ==
    /\ \/ op = "none" /\ tref = NoRef /\ op' = "parse_text_ref"
       \/ op = "parse_value" /\ op' = "round_trip"
    /\ res' = parse_text_ref(value)
    /\ UNCHANGED <<root, key, value, tref, text, fmtVars, routerVars, mdVars, sqlVars, loopVars, frameVars>>

IterList ==
    /\ op = "none" /\ tref = NoRef
    /\ op' = "iter_list"
    /\ res' = iter_list(value)
    /\ UNCHANGED <<root, key, value, tref, text, fmtVars, routerVars, mdVars, sqlVars, loopVars, frameVars>>

ParseStrList ==
    /\ op = "none" /\ tref = NoRef
    /\ op' = "parse_str_list"
    /\ res' = parse_str_list(value)
    /\ UNCHANGED <<root, key, value, tref, text, fmtVars, routerVars, mdVars, sqlVars, loopVars, frameVars>>

ExtractStringList ==
    /\ op = "none" /\ tref = NoRef
    /\ op' = "extract_string_list"
    /\ res' = extract_string_list(value)
    /\ UNCHANGED <<root, key, value, tref, text, fmtVars, routerVars, mdVars, sqlVars, loopVars, frameVars>>

RenderTextRef ==
    /\ op = "none" /\ tref # NoRef
    /\ op' = "render_text_ref"
    /\ text' = render_text_ref(tref)
    /\ UNCHANGED <<root, key, value, tref, res, fmtVars, routerVars, mdVars, sqlVars, loopVars, frameVars>>

\* parse_value on the rendered text.
ParseValue ==
    /\ op = "render_text_ref"
    /\ LET p == parse_value(text)
       IN  IF IsErr(p)
           THEN op' = "parse_value_failed" /\ res' = p /\ value' = value
           ELSE op' = "parse_value" /\ res' = res /\ value' = p.v
    /\ UNCHANGED <<root, key, tref, text, fmtVars, routerVars, mdVars, sqlVars, loopVars, frameVars>>

NextText ==
    \/ ParseTextRef
    \/ IterList
    \/ ParseStrList
    \/ ExtractStringList
    \/ RenderTextRef
    \/ ParseValue

SpecText == InitText /\ [][NextText]_vars

(***************************************************************************)
(* The inputs of the serialization helpers and the response builders: a    *)
(* message of up to MaxStr characters, or goals and fields whose values    *)
(* are drawn from strings that hold the characters quote_str escapes and   *)
(* the characters that delimit a form.                                     *)
(***************************************************************************)
Payloads ==
    { <<>>, <<"a">>, <<Quote>>, <<Backslash>>, <<Newline>>,
      <<Backslash, "n">>, <<Quote, ")", " ", "(">> }

FieldKey == <<"k">>

FieldLists == SeqsUpTo({<<FieldKey, v>> : v \in Payloads}, MaxFields)

GoalLists == SeqsUpTo(Payloads, MaxGoals)

InitFmt ==
    /\ root = Nil /\ key = <<>> /\ value = Nil /\ tref = NoRef
    /\ \/ /\ message \in SeqsUpTo(PayloadChars, MaxStr)
          /\ waiting_goals = <<>> /\ fields = <<>>
       \/ /\ message = <<>>
          /\ waiting_goals \in GoalLists /\ fields \in FieldLists
    /\ IdleRouter /\ IdleMd /\ IdleSql /\ IdleLoop /\ IdleFrame
    /\ text = <<>>
    /\ op = "none"
    /\ res = OkNone

\* One call of a function that writes text.
Write(name, out) ==
    /\ op = "none"
    /\ op' = name
    /\ text' = out
    /\ UNCHANGED <<root, key, value, tref, fmtVars, routerVars, mdVars, sqlVars, loopVars, frameVars, res>>

QuoteStr ==
    /\ waiting_goals = <<>> /\ fields = <<>>
    /\ Write("quote_str", quote_str(message))

FormatError ==
    /\ waiting_goals = <<>> /\ fields = <<>>
    /\ Write("format_error", format_error(message))

\* render_list on fragments given as they are.
RenderList ==
    /\ message = <<>> /\ fields = <<>>
    /\ Write("render_list", render_list(waiting_goals))

SerializeStringList ==
    /\ message = <<>> /\ fields = <<>>
    /\ Write("serialize_string_list", serialize_string_list(waiting_goals))

FormatSuccess ==
    /\ message = <<>> /\ waiting_goals = <<>>
    /\ Write("format_success", format_success(fields))

FormatComplete ==
    /\ message = <<>> /\ waiting_goals = <<>>
    /\ Write("format_complete", format_complete(fields))

FormatBlocked ==
    /\ message = <<>>
    /\ Write("format_blocked", format_blocked(waiting_goals, fields))

NextFmt ==
    \/ QuoteStr
    \/ FormatError
    \/ RenderList
    \/ SerializeStringList
    \/ FormatSuccess
    \/ FormatComplete
    \/ FormatBlocked

SpecFmt == InitFmt /\ [][NextFmt]_vars

(***************************************************************************)
(* A Router: register and register_alias in any order, and route.          *)
(***************************************************************************)
\* The argument texts given to route.
Sexprs == {"(a)", "(b)"}

InitRouter ==
    /\ root = Nil /\ key = <<>> /\ value = Nil /\ tref = NoRef
    /\ IdleFmt /\ IdleRouter /\ IdleMd /\ IdleSql /\ IdleLoop /\ IdleFrame
    /\ text = <<>>
    /\ op = "none"
    /\ res = OkNone

routerFrame == <<root, key, value, tref, fmtVars, mdVars, sqlVars, loopVars, frameVars, text>>

\* The arguments of the other methods, when one method is called.
NoRegister == handler' = "none" /\ replaced' = "none"

NoAlias == alias' = "none" /\ canonical' = "none"

NoRoute == sexpr' = "none" /\ invoked' = <<>>

\* self.handlers.insert(tool_name, handler), which returns the handler it
\* replaces.
Register ==
    \E n \in Names, h \in Handlers :
        /\ tool_name' = n /\ handler' = h
        /\ replaced' = handlers[n]
        /\ handlers' = [handlers EXCEPT ![n] = h]
        /\ registered' = registered \cup {n}
        /\ op' = "register"
        /\ res' = OkNone
        /\ NoAlias /\ NoRoute
        /\ UNCHANGED <<routerFrame, aliases>>

\* self.aliases.insert(alias, canonical), which returns the target it
\* replaces.
RegisterAlias ==
    \E a \in Names, c \in Names :
        /\ alias' = a /\ canonical' = c
        /\ replaced' = aliases[a]
        /\ aliases' = [aliases EXCEPT ![a] = c]
        /\ op' = "register_alias"
        /\ res' = OkNone
        /\ tool_name' = "none" /\ handler' = "none" /\ NoRoute
        /\ UNCHANGED <<routerFrame, handlers, registered>>

Route ==
    \E n \in Names, a \in Sexprs :
        LET r == route(handlers, aliases, n, a)
        IN  /\ op' = "route"
            /\ tool_name' = n /\ sexpr' = a
            /\ invoked' = r.invoked
            /\ res' = r.res
            /\ NoRegister /\ NoAlias
            /\ UNCHANGED <<routerFrame, handlers, aliases, registered>>

\* tool_names(): the keys of handlers in the order the HashMap yields them.
ToolNames ==
    \E names \in tool_names(handlers, aliases) :
        /\ op' = "tool_names"
        /\ res' = Ok(names)
        /\ tool_name' = "none" /\ NoRegister /\ NoAlias /\ NoRoute
        /\ UNCHANGED <<routerFrame, handlers, aliases, registered>>

HasTool ==
    \E n \in Names :
        /\ op' = "has_tool"
        /\ tool_name' = n
        /\ res' = Ok(has_tool(handlers, aliases, n))
        /\ NoRegister /\ NoAlias /\ NoRoute
        /\ UNCHANGED <<routerFrame, handlers, aliases, registered>>

NextRouter ==
    \/ Register
    \/ RegisterAlias
    \/ Route
    \/ ToolNames
    \/ HasTool

SpecRouter == InitRouter /\ [][NextRouter]_vars

(***************************************************************************)
(* The inputs of extract_section: a content of up to MaxLines lines, among *)
(* them headings of three levels, an indented heading, text and an empty   *)
(* line, and a heading to look for.                                        *)
(***************************************************************************)
MdLines ==
    { <<"#", " ", "a">>, <<"#", "#", " ", "a">>, <<"#", "#", " ", "b">>,
      <<"#", "#", "#", " ", "c">>, <<" ", "#", "#", " ", "b">>, <<"x">>, <<>> }

Contents == {join(ls, <<Newline>>) : ls \in SeqsUpTo(MdLines, MaxLines)}

Headings ==
    { <<"#", " ", "a">>, <<"#", "#", " ", "a">>, <<"#", "#", " ", "a", " ">>,
      <<" ", "#", "#", " ", "a">>, <<"#", "#", "#", " ", "c">>,
      <<"#", "#", " ", "z">> }

\* The headings asked for together: one of level 1, one of level 2 and one
\* that no content holds, in any order and with repetitions.
HeadingLists ==
    SeqsUpTo({<<"#", " ", "a">>, <<"#", "#", " ", "b">>, <<"#", "#", " ", "z">>},
             MaxHeadings)

InitMd ==
    /\ root = Nil /\ key = <<>> /\ value = Nil /\ tref = NoRef
    /\ IdleFmt /\ IdleRouter /\ IdleSql /\ IdleLoop /\ IdleFrame
    /\ content \in Contents
    /\ \/ section_heading \in Headings /\ section_headings = <<>>
       \/ section_heading = <<>> /\ section_headings \in HeadingLists
    /\ text = <<>>
    /\ op = "none"
    /\ res = OkNone

ExtractSection ==
    /\ op = "none"
    /\ section_heading # <<>>
    /\ op' = "extract_section"
    /\ res' = extract_section(content, section_heading)
    /\ UNCHANGED <<root, key, value, tref, fmtVars, routerVars, mdVars, sqlVars, loopVars, frameVars, text>>

ExtractSections ==
    /\ op = "none"
    /\ section_heading = <<>>
    /\ op' = "extract_sections"
    /\ res' = extract_sections(content, section_headings)
    /\ UNCHANGED <<root, key, value, tref, fmtVars, routerVars, mdVars, sqlVars, loopVars, frameVars, text>>

NextMd ==
    \/ ExtractSection
    \/ ExtractSections

SpecMd == InitMd /\ [][NextMd]_vars

(***************************************************************************)
(* Concurrent callers of upsert_progress_snapshot on clones of one         *)
(* SqlitePersistence: each call reads the clock, takes the connection      *)
(* mutex, executes the statement and drops the guard.                      *)
(***************************************************************************)
Ids == {"i1", "i2"}

Snapshots ==
    {[internal_id |-> i, event |-> p[1], snapshot_text |-> p[2]] :
        i \in Ids, p \in {<<"e1", "s1">>, <<"e2", "s2">>}}

\* The calls begun so far.
Begun == Len(lock_log) + Cardinality({c \in Callers : upserts[c].pc = "lock"})

\* SqlitePersistence::open on a fresh database.
InitSql ==
    /\ root = Nil /\ key = <<>> /\ value = Nil /\ tref = NoRef
    /\ IdleFmt /\ IdleRouter /\ IdleMd /\ IdleSql /\ IdleLoop /\ IdleFrame
    /\ text = <<>>
    /\ op = "none"
    /\ res = OkNone

\* The system clock advances.
Tick ==
    /\ clock < MaxClock
    /\ clock' = clock + 1
    /\ UNCHANGED <<root, key, value, tref, fmtVars, routerVars, mdVars,
                   progress_snapshots, conn, upserts, lock_log, loopVars, frameVars,
                   text, op, res>>

\* A caller enters upsert_progress_snapshot and reads the clock.
UpsertBegin(c) ==
    \E snap \in Snapshots :
        /\ upserts[c].pc = "idle"
        /\ Begun < MaxCalls
        /\ upserts' = [upserts EXCEPT ![c] =
                          [pc |-> "lock", snapshot |-> snap, updated_at |-> clock]]
        /\ op' = "begin"
        /\ UNCHANGED <<root, key, value, tref, fmtVars, routerVars, mdVars,
                       progress_snapshots, conn, clock, lock_log, loopVars, frameVars,
                       text, res>>

\* self.conn.lock(): the caller waits until the mutex is free.
UpsertLock(c) ==
    /\ upserts[c].pc = "lock"
    /\ conn = "none"
    /\ conn' = c
    /\ upserts' = [upserts EXCEPT ![c].pc = "execute"]
    /\ lock_log' = Append(lock_log, upserts[c].snapshot)
    /\ op' = "lock"
    /\ UNCHANGED <<root, key, value, tref, fmtVars, routerVars, mdVars,
                   progress_snapshots, clock, loopVars, frameVars, text, res>>

\* conn.execute(..), then the guard is dropped and the call returns Ok(()).
UpsertExecute(c) ==
    /\ upserts[c].pc = "execute"
    /\ conn = c
    /\ progress_snapshots' =
           upsert_row(progress_snapshots, upserts[c].snapshot, upserts[c].updated_at)
    /\ conn' = "none"
    /\ upserts' = [upserts EXCEPT ![c] = [pc |-> "idle"]]
    /\ op' = "upsert_progress_snapshot"
    /\ UNCHANGED <<root, key, value, tref, fmtVars, routerVars, mdVars,
                   clock, lock_log, loopVars, frameVars, text, res>>

NextSql ==
    \/ Tick
    \/ \E c \in Callers : UpsertBegin(c)
    \/ \E c \in Callers : UpsertLock(c)
    \/ \E c \in Callers : UpsertExecute(c)

SpecSql == InitSql /\ [][NextSql]_vars

(***************************************************************************)
(* One run of run_line_loop: the editor is created, then the loop prompts, *)
(* reads and calls back until a callback breaks or an error ends it.       *)
(***************************************************************************)
\* The lines readline returns: empty, blank, and text with and without
\* surrounding whitespace.
RawLines ==
    { <<>>, <<" ">>, <<" ", "\t">>, <<"a">>, <<" ", "a", "\t">>,
      <<"a", " ", "b", " ">> }

InitLoop ==
    /\ root = Nil /\ key = <<>> /\ value = Nil /\ tref = NoRef
    /\ IdleFmt /\ IdleRouter /\ IdleMd /\ IdleSql /\ IdleFrame
    /\ loop_pc = "start" /\ prompts = 0 /\ raw = <<>> /\ pending = <<>>
    /\ history = <<>> /\ add_history \in BOOLEAN /\ calls = <<>>
    /\ control = "none"
    /\ text = <<>>
    /\ op = "none"
    /\ res = OkNone

loopFrame ==
    <<root, key, value, tref, fmtVars, routerVars, mdVars, sqlVars, frameVars, text>>

\* DefaultEditor::new(), which may fail, and the history file loaded.
NewEditor ==
    /\ loop_pc = "start"
    /\ op' = "new_editor"
    /\ \/ loop_pc' = "prompt" /\ res' = res
       \/ /\ loop_pc' = "returned"
          /\ res' = with_context(Err("editor"), "Failed to initialize line editor")
    /\ UNCHANGED <<loopFrame, prompts, raw, pending, history, add_history, calls,
                   control>>

\* (cfg.prompt)()
Prompt ==
    /\ loop_pc = "prompt"
    /\ prompts < MaxPrompts
    /\ prompts' = prompts + 1
    /\ loop_pc' = "readline"
    /\ op' = "prompt"
    /\ UNCHANGED <<loopFrame, raw, pending, history, add_history, calls, control, res>>

\* editor.readline returns a line: it is trimmed, dropped when empty, and
\* otherwise added to the history and handed on.
ReadlineOk ==
    \E l \in RawLines :
        LET line == trim(l)
        IN  /\ loop_pc = "readline"
            /\ raw' = <<"Ok", l>>
            /\ op' = "readline"
            /\ IF line = <<>>
               THEN loop_pc' = "prompt" /\ UNCHANGED <<pending, history>>
               ELSE /\ loop_pc' = "on_line"
                    /\ pending' = line
                    /\ history' = IF add_history THEN Append(history, line)
                                  ELSE history
            /\ UNCHANGED <<loopFrame, prompts, add_history, calls, control, res>>

\* editor.readline returns an error.
ReadlineErr ==
    \E e \in ReadlineErrors :
        /\ loop_pc = "readline"
        /\ raw' = <<"Err", e>>
        /\ op' = "readline"
        /\ CASE classify_readline_error(e) = "Interrupted" ->
                    loop_pc' = "on_interrupt" /\ res' = res
             [] classify_readline_error(e) = "Eof" ->
                    loop_pc' = "on_eof" /\ res' = res
             [] OTHER ->
                    /\ loop_pc' = "returned"
                    /\ res' = with_context(Err(e), "Readline error")
        /\ UNCHANGED <<loopFrame, prompts, pending, history, add_history, calls,
                       control>>

\* on_line(&line) returns Ok(Continue), Ok(Break) or an error.
OnLine ==
    \E r \in {"Continue", "Break", "Err"} :
        /\ loop_pc = "on_line"
        /\ calls' = Append(calls, <<"on_line", pending>>)
        /\ control' = r
        /\ op' = "on_line"
        /\ IF r = "Err"
           THEN loop_pc' = "returned" /\ res' = Err("on_line failed")
           ELSE /\ loop_pc' = after_control(r)
                /\ res' = IF after_control(r) = "returned" THEN OkUnit ELSE res
        /\ UNCHANGED <<loopFrame, prompts, raw, pending, history, add_history>>

\* A callback without argument returns Continue or Break.
OnEvent(name) ==
    \E r \in {"Continue", "Break"} :
        /\ loop_pc = name
        /\ calls' = Append(calls, <<name>>)
        /\ control' = r
        /\ op' = name
        /\ loop_pc' = after_control(r)
        /\ res' = IF after_control(r) = "returned" THEN OkUnit ELSE res
        /\ UNCHANGED <<loopFrame, prompts, raw, pending, history, add_history>>

OnInterrupt == OnEvent("on_interrupt")

OnEof == OnEvent("on_eof")

NextLoop ==
    \/ NewEditor
    \/ Prompt
    \/ ReadlineOk
    \/ ReadlineErr
    \/ OnLine
    \/ OnInterrupt
    \/ OnEof

SpecLoop == InitLoop /\ [][NextLoop]_vars

(***************************************************************************)
(* Callers sharing one parsed tree: any of them calls any extraction or    *)
(* text-reference operation on it, in any order, and a caller that got a   *)
(* Value back may overwrite the Value it holds.                            *)
(***************************************************************************)
FrameOps ==
    {"get_kw_value", "get_value", "require_value", "get_kw_str",
     "require_kw_str", "get_string", "require_string", "get_bool", "get_int",
     "get_uint", "parse_str_list", "parse_text_ref"}

\* The operations that return a Value of the tree.
ValueOps == {"get_kw_value", "get_value", "require_value"}

\* The operation called on the tree t with the key k.
Apply(name, t, k) ==
    CASE name = "get_kw_value" -> get_kw_value(t, k)
      [] name = "get_value" -> get_value(t, k)
      [] name = "require_value" -> require_value(t, k)
      [] name = "get_kw_str" -> get_kw_str(t, k)
      [] name = "require_kw_str" -> require_kw_str(t, k)
      [] name = "get_string" -> get_string(t, k)
      [] name = "require_string" -> require_string(t, k)
      [] name = "get_bool" -> get_bool(t, k)
      [] name = "get_int" -> get_int(t, k)
      [] name = "get_uint" -> get_uint(t, k)
      [] name = "parse_str_list" -> parse_str_list(t)
      [] name = "parse_text_ref" -> parse_text_ref(t)

\* What a caller writes into a Value it owns.
Scribble == Str(<<"m", "u", "t">>)

InitFrame ==
    /\ root \in AccForms \cup NonListRoots
    /\ tree = root
    /\ held = <<>>
    /\ key \in Keys
    /\ value = Nil /\ tref = NoRef
    /\ IdleFmt /\ IdleRouter /\ IdleMd /\ IdleSql /\ IdleLoop
    /\ text = <<>>
    /\ op = "none"
    /\ res = OkNone

frameFrame ==
    <<root, value, tref, fmtVars, routerVars, mdVars, sqlVars, loopVars, text>>

\* A caller calls one of the operations on the tree as it is now.
FrameCall ==
    \E name \in FrameOps, k \in Keys :
        LET r == Apply(name, tree, k)
        IN  /\ op' = name
            /\ key' = k
            /\ res' = r
            /\ held' = IF name \in ValueOps /\ ~IsErr(r) /\ r.k # "none"
                       THEN <<clone_value(r.v, kw_walk_cell(tree.cdr, k, 1))>>
                       ELSE held
            /\ UNCHANGED <<frameFrame, tree>>

\* The caller overwrites the Value it got back; were that the cell of the
\* tree, the tree would change with it.
CallerOverwrites ==
    /\ held # <<>>
    /\ held[1].v # Scribble
    /\ held' = <<[held[1] EXCEPT !.v = Scribble]>>
    /\ tree' = IF held[1].alias
               THEN Cons(tree.car, set_nth(tree.cdr, held[1].cell, Scribble))
               ELSE tree
    /\ op' = "overwrite"
    /\ UNCHANGED <<frameFrame, key, res>>

NextFrame ==
    \/ FrameCall
    \/ CallerOverwrites

SpecFrame == InitFrame /\ [][NextFrame]_vars

(***************************************************************************)
(* The keyword walk, stated over the positions of the form.                *)
(***************************************************************************)
\* The elements of a list value, in order (an improper tail is left out).
RECURSIVE ElemsOf(_)
ElemsOf(v) == IF IsCons(v) THEN <<v.car>> \o ElemsOf(v.cdr) ELSE <<>>

RECURSIVE IsProper(_)
IsProper(v) == IF IsCons(v) THEN IsProper(v.cdr) ELSE v = Nil

\* The elements after the tag.
Args(r) == ElemsOf(r.cdr)

\* The keyword positions of a pairing from the element after the tag.
KwPos(n) == {i \in 1..n : i % 2 = 1}

HasName(e) == e.t \in {"sym", "kw"}

\* The name of a symbol or native keyword.
NameOf(e) == IF e.t = "sym" THEN StripMarker(e.s) ELSE e.s

\* (tag k1 v1 ... kn vn): a proper list of pairs with a keyword atom in
\* every keyword position.
WellFormed(r) ==
    /\ IsCons(r) /\ IsProper(r)
    /\ Len(Args(r)) % 2 = 0
    /\ \A i \in KwPos(Len(Args(r))) : HasName(Args(r)[i])

\* The keyword positions whose atom names the requested name.
Matches(r, name) ==
    {i \in KwPos(Len(Args(r))) : HasName(Args(r)[i]) /\ NameOf(Args(r)[i]) = name}

SetMin(S) == CHOOSE i \in S : \A j \in S : i <= j

\* C1: on a form whose keyword positions all hold keyword atoms,
\* get_kw_value returns the value paired with the first keyword that
\* normalizes to the requested name, never the value of a later duplicate.
C1_FirstMatchWins ==
    (op = "get_kw_value" /\ WellFormed(root) /\ Matches(root, key) # {})
        => res = OkSome(Args(root)[SetMin(Matches(root, key)) + 1])

\* A form with the requested name twice, paired with different values.
C1_Witness ==
    /\ op = "get_kw_value" /\ WellFormed(root)
    /\ \E i, j \in Matches(root, key) :
          /\ i < j /\ i = SetMin(Matches(root, key))
          /\ Args(root)[i + 1] # Args(root)[j + 1]
          /\ res = OkSome(Args(root)[i + 1])

\* A proper form whose last element is a keyword atom in keyword position,
\* reached by the walk without a match for the name.
Dangling(r, name) ==
    /\ IsCons(r) /\ IsProper(r)
    /\ Len(Args(r)) % 2 = 1
    /\ \A i \in KwPos(Len(Args(r))) : HasName(Args(r)[i])
    /\ \A i \in Matches(r, name) : i = Len(Args(r))

\* C2: a keyword atom that ends the list, reached without an earlier match,
\* makes get_kw_value fail with 'expected value after keyword', whether the
\* requested name is the dangling keyword's or another one.
C2_DanglingKeywordIsError ==
    (op = "get_kw_value" /\ Dangling(root, key))
        => (IsErr(res) /\ RootCause(res) = "expected value after keyword")

\* The requested name is absent and the form ends in a dangling keyword
\* after one complete pair.
C2_Witness ==
    /\ op = "get_kw_value" /\ Dangling(root, key)
    /\ Matches(root, key) = {} /\ Len(Args(root)) = 3
    /\ IsErr(res)

\* The claim's reading of a keyword atom: a symbol that begins with ':' or
\* a native keyword.
MarkedOrNative(e) ==
    \/ e.t = "sym" /\ Len(e.s) > 0 /\ Head(e.s) = ":"
    \/ e.t = "kw"

\* C6 as stated: every value get_kw_value returns follows, in keyword
\* position, a ':'-marked symbol or a native keyword that names the key.
C6_OnlyMarkedOrNative ==
    (op = "get_kw_value" /\ res.k = "some")
        => \E i \in KwPos(Len(Args(root)) - 1) :
              /\ MarkedOrNative(Args(root)[i])
              /\ NameOf(Args(root)[i]) = key
              /\ res.v = Args(root)[i + 1]

\* C6 (amended): every value get_kw_value returns follows, in keyword
\* position, a symbol (its name with one leading ':' removed when it has
\* one, the symbol itself otherwise) or a native keyword that names the
\* key; a string, a number or a list never has a keyword name.
C6_OnlySymbolOrNative ==
    (op = "get_kw_value" /\ res.k = "some")
        => \E i \in KwPos(Len(Args(root)) - 1) :
              /\ HasName(Args(root)[i])
              /\ NameOf(Args(root)[i]) = key
              /\ res.v = Args(root)[i + 1]

\* The value returned follows a bare symbol, and no marked symbol or native
\* keyword of the form names the key.
C6_Witness ==
    /\ op = "get_kw_value" /\ res.k = "some"
    /\ Args(root)[1] = Sym(key)
    /\ \A i \in 1..Len(Args(root)) :
          ~(MarkedOrNative(Args(root)[i]) /\ NameOf(Args(root)[i]) = key)

\* The keyword positions at which the walk stops: the first one whose
\* element has no keyword name.
StopPos(r) ==
    {p \in KwPos(Len(Args(r))) :
        /\ ~HasName(Args(r)[p])
        /\ \A i \in KwPos(p - 1) : HasName(Args(r)[i])}

\* C7: the walk stops at the first element in keyword position without a
\* keyword name: a name matched only after it gives Ok(None), a name matched
\* before it gives the first such value.
C7_WalkStopsAtNonKeyword ==
    (op = "get_kw_value" /\ IsCons(root) /\ IsProper(root))
        => \A p \in StopPos(root) :
              LET before == {i \in Matches(root, key) : i < p}
              IN  IF before = {}
                  THEN res = OkNone
                  ELSE res = OkSome(Args(root)[SetMin(before) + 1])

\* A string in the first keyword position, and a complete pair for the key
\* after it.
C7_Witness ==
    /\ op = "get_kw_value" /\ IsCons(root)
    /\ StopPos(root) = {1}
    /\ Len(Args(root)) = 3
    /\ HasName(Args(root)[2]) /\ NameOf(Args(root)[2]) = key
    /\ res = OkNone


(***************************************************************************)
(* The accessors, stated over the form.                                    *)
(***************************************************************************)
OptionalOps ==
    {"get_kw_value", "get_kw_str", "get_string", "get_value", "get_bool",
     "get_int", "get_uint"}

RequiredOps == {"require_kw_str", "require_string", "require_value"}

\* C3: on a root that is no list cell, get_kw_value and every accessor
\* layered on it return an error; none returns Ok(None).
C3_NonListRootIsError ==
    (op \in OptionalOps \cup RequiredOps /\ ~IsCons(root))
        => (IsErr(res) /\ RootCause(res) = "expected list (tool call form)")

\* get_bool called on the empty list.
C3_Witness ==
    /\ op = "get_bool" /\ root = Nil
    /\ IsErr(res)

\* C4: on a well-formed form without a pair for the requested name, every
\* optional accessor returns Ok(None) and every required accessor fails
\* with a missing-required-keyword error.
C4_AbsenceNoneOrMissing ==
    (WellFormed(root) /\ Matches(root, key) = {})
        => /\ op \in OptionalOps => res = OkNone
           /\ op \in RequiredOps =>
                 /\ IsErr(res)
                 /\ RootCause(res) \in {"missing required keyword :{}",
                                        "Missing required keyword :{}"}

\* require_string on a form that holds a pair for another name only.
C4_Witness ==
    /\ op = "require_string"
    /\ WellFormed(root) /\ Len(Args(root)) = 2 /\ Matches(root, key) = {}
    /\ IsErr(res)

\* An optional sign followed by at least one decimal digit.
IsBase10(s) ==
    LET d == IF s # <<>> /\ Head(s) \in {"+", "-"} THEN Tail(s) ELSE s
    IN  d # <<>> /\ \A i \in 1..Len(d) : IsDigit(d[i])

\* The representations section 4.3 accepts for each accessor.
Accepted(o, v) ==
    CASE o \in {"get_kw_str", "require_kw_str", "get_string", "require_string"}
           -> v.t = "str"
      [] o = "get_bool"
           -> v.t = "bool" \/ (v.t \in {"str", "sym"} /\ v.s \in {True, False})
      [] o \in {"get_int", "get_uint"}
           -> v.t = "int" \/ (v.t = "str" /\ IsBase10(v.s))
      [] OTHER -> TRUE

\* The value paired with the first keyword that names the key.
Paired(r, name) == Args(r)[SetMin(Matches(r, name)) + 1]

\* C5: when the keyword is present and its value has no accepted
\* representation for the accessor, the accessor returns an error, never
\* Ok(None), a default or a coerced value.
C5_WrongTypeIsError ==
    (/\ op \in OptionalOps \cup RequiredOps
     /\ WellFormed(root) /\ Matches(root, key) # {}
     /\ ~Accepted(op, Paired(root, key)))
        => IsErr(res)

\* get_int on a keyword paired with a list.
C5_Witness ==
    /\ op = "get_int"
    /\ WellFormed(root) /\ Matches(root, key) # {}
    /\ IsCons(Paired(root, key))
    /\ IsErr(res)

(***************************************************************************)
(* The text operations, stated over their inputs.                          *)
(***************************************************************************)
\* (use "p"): a proper list of exactly two elements, the symbol use and a
\* string.
IsUseForm(v) ==
    /\ IsCons(v) /\ IsProper(v)
    /\ Len(ElemsOf(v)) = 2
    /\ ElemsOf(v)[1] = Sym(Use)
    /\ ElemsOf(v)[2].t = "str"

\* C8: parse_text_ref accepts exactly a string atom s, giving Literal(s),
\* and a proper two-element list (use "p"), giving Reference(p); every
\* other value is an error.
C8_ExactlyTwoShapes ==
    op = "parse_text_ref"
        => IF value.t = "str" THEN res = Ok(Literal(value.s))
           ELSE IF IsUseForm(value) THEN res = Ok(UsePath(ElemsOf(value)[2].s))
           ELSE IsErr(res)

AllStrings(items) == \A i \in 1..Len(items) : items[i].t = "str"

\* C9: parse_str_list and extract_string_list give the strings of a proper
\* list of string atoms in list order, and fail when an element is no
\* string or the value is no proper list.
C9_ProperStringListOrError ==
    op \in {"parse_str_list", "extract_string_list"}
        => IF IsProper(value) /\ AllStrings(ElemsOf(value))
           THEN res = Ok([i \in 1..Len(ElemsOf(value)) |-> ElemsOf(value)[i].s])
           ELSE IsErr(res)

\* C10: rendering a TextRef, parsing the text and applying parse_text_ref
\* gives the TextRef back: the rendered text always parses, and the result
\* has the same variant and the same payload.
C10_RenderParseRoundTrip ==
    /\ op # "parse_value_failed"
    /\ op = "round_trip" => res = Ok(tref)

\* A reference whose payload holds a quote, a backslash and a newline has
\* made the round trip.
C10_Witness ==
    /\ op = "round_trip"
    /\ tref = UsePath(<<Quote, Backslash, Newline>>)
    /\ res = Ok(tref)

(***************************************************************************)
(* quote_str, stated over the characters of the literal.                   *)
(***************************************************************************)
\* Undoing the escapes of the inside of a string literal: <<s>> when every
\* backslash starts one of the escapes \\, \" and \n and no quote stands
\* alone, <<>> otherwise.
RECURSIVE Unescape(_)
Unescape(cs) ==
    IF cs = <<>> THEN <<<<>>>>
    ELSE IF Head(cs) = Backslash
    THEN IF Len(cs) < 2 \/ cs[2] \notin {Backslash, Quote, "n"} THEN <<>>
         ELSE LET rest == Unescape(SubSeq(cs, 3, Len(cs)))
                  c == IF cs[2] = "n" THEN Newline ELSE cs[2]
              IN  IF rest = <<>> THEN <<>> ELSE <<<<c>> \o rest[1]>>
    ELSE IF Head(cs) = Quote THEN <<>>
    ELSE LET rest == Unescape(Tail(cs))
         IN  IF rest = <<>> THEN <<>> ELSE <<<<Head(cs)>> \o rest[1]>>

\* Decoding a string literal: strip the two delimiting quotes, undo the
\* escapes.
Dequote(lit) ==
    IF Len(lit) < 2 \/ lit[1] # Quote \/ lit[Len(lit)] # Quote THEN <<>>
    ELSE Unescape(SubSeq(lit, 2, Len(lit) - 1))

\* C11: decoding quote_str(s) as a string literal gives back exactly s, so
\* no other string has the same literal; the string of a backslash and an n
\* and the string of a newline have different literals.
C11_DequoteInvertsQuoteStr ==
    op = "quote_str"
        => /\ Dequote(text) = <<message>>
           /\ \A other \in Payloads : quote_str(other) = text => other = message
           /\ message = <<Backslash, "n">> => text # quote_str(<<Newline>>)

\* The string of a backslash and an n has been quoted and decodes to itself.
C11_Witness ==
    /\ op = "quote_str"
    /\ message = <<Backslash, "n">>
    /\ text = <<Quote, Backslash, Backslash, "n", Quote>>
    /\ Dequote(text) = <<message>>

Escaped == {Backslash, Quote, Newline}

\* The second character of the escape of c.
EscapeLetter(c) == IF c = Newline THEN "n" ELSE c

\* Where the image of the i-th character of s starts in quote_str(s): after
\* the opening quote, one place for every earlier character and one more
\* for every earlier escaped one.
ImageStart(s, i) == 1 + i + Cardinality({j \in 1..(i - 1) : s[j] \in Escaped})

\* C12: quote_str(s) is a quote, then for every character of s in order
\* either the character itself or, for a backslash, a quote and a newline,
\* its two-character escape, then a quote, and nothing else: every input
\* character is escaped once.
C12_QuoteStrEscapesEachOnce ==
    op = "quote_str"
        => /\ Len(text) = ImageStart(message, Len(message) + 1)
           /\ text[1] = Quote
           /\ text[Len(text)] = Quote
           /\ \A i \in 1..Len(message) :
                  LET at == ImageStart(message, i)
                  IN  IF message[i] \in Escaped
                      THEN /\ text[at] = Backslash
                           /\ text[at + 1] = EscapeLetter(message[i])
                      ELSE text[at] = message[i]

\* A backslash, a quote and a newline have been quoted: eight characters.
C12_Witness ==
    /\ op = "quote_str"
    /\ message = <<Backslash, Quote, Newline>>
    /\ text = <<Quote, Backslash, Backslash, Backslash, Quote, Backslash, "n", Quote>>

(***************************************************************************)
(* The response builders, read back.                                       *)
(***************************************************************************)
\* The elements fields read back as: a marked symbol and a string each.
RECURSIVE FieldElems(_)
FieldElems(fs) ==
    IF fs = <<>> THEN <<>>
    ELSE <<Sym(<<":">> \o fs[1][1]), Str(fs[1][2])>> \o FieldElems(Tail(fs))

GoalElems(goals) == [i \in 1..Len(goals) |-> Str(goals[i])]

\* The list a response is expected to read back as.
Response(name) ==
    CASE name = "format_error" ->
            List(<<Sym(<<"e", "r", "r", "o", "r">>), Str(message)>>)
      [] name = "format_success" ->
            List(<<Sym(<<"s", "u", "c", "c", "e", "s", "s">>)>> \o FieldElems(fields))
      [] name = "format_complete" ->
            List(<<Sym(<<"c", "o", "m", "p", "l", "e", "t", "e">>)>> \o FieldElems(fields))
      [] name = "format_blocked" ->
            List(<<Sym(<<"b", "l", "o", "c", "k", "e", "d">>), Sym(<<":", "w", "a", "i", "t", "i", "n", "g", "-", "g", "o", "a", "l", "s">>), List(GoalElems(waiting_goals))>>
                     \o FieldElems(fields))

Builders == {"format_error", "format_success", "format_complete", "format_blocked"}

\* C13: the text of a response builder reads back as one list with the
\* builder's tag in which the message, every field value and every waiting
\* goal is one string element equal to the string given: no payload ends
\* its literal early or adds or removes an element.
C13_ResponseReadsBack ==
    op \in Builders => parse_value(text) = Ok(Response(op))

\* An error response whose message holds a quote and a closing parenthesis
\* has been written and reads back with the message intact.
C13_Witness ==
    /\ op = "format_error"
    /\ message = <<Quote, ")", Backslash>>
    /\ parse_value(text) = Ok(List(<<Sym(<<"e", "r", "r", "o", "r">>), Str(message)>>))

(***************************************************************************)
(* render_list, stated over the positions of the output.                   *)
(***************************************************************************)
RECURSIVE TotalLen(_)
TotalLen(frags) ==
    IF frags = <<>> THEN 0 ELSE Len(frags[1]) + TotalLen(Tail(frags))

\* Where the i-th fragment starts in the output: after the earlier
\* fragments and one separator for each of them.
FragStart(frags, i) == TotalLen(SubSeq(frags, 1, i - 1)) + i

\* The places of the output the join has written a separator to.
SepPos(frags) ==
    {FragStart(frags, i) + Len(frags[i]) : i \in 1..(Len(frags) - 1)}

\* The output is the fragments in order with one space between consecutive
\* ones and nothing else.
JoinedBySpace(frags, out) ==
    /\ Len(out) = TotalLen(frags) + (IF frags = <<>> THEN 0 ELSE Len(frags) - 1)
    /\ \A i \in 1..Len(frags) :
           SubSeq(out, FragStart(frags, i), FragStart(frags, i) + Len(frags[i]) - 1)
               = frags[i]
    /\ \A q \in SepPos(frags) : out[q] = " "

\* No separator of the join leads or ends the output, and no two are
\* adjacent.
SeparatorsInside(frags, out) ==
    /\ 1 \notin SepPos(frags)
    /\ Len(out) \notin SepPos(frags)
    /\ \A q \in SepPos(frags) : q + 1 \notin SepPos(frags)

\* C18 as stated: render_list joins the fragments in order with exactly one
\* space between consecutive ones, and the join puts no space at the start,
\* none at the end and no two in a row, for every input sequence.
C18_NoEdgeOrDoubleSeparator ==
    op = "render_list"
        => /\ JoinedBySpace(waiting_goals, text)
           /\ SeparatorsInside(waiting_goals, text)

\* C18, amended: render_list joins the fragments in order with exactly one
\* space between consecutive ones, an empty input gives the empty string,
\* and when no fragment is empty the join puts no space at the start, none
\* at the end and no two in a row.
C18_SeparatorsInsideForNonEmptyFragments ==
    op = "render_list"
        => /\ JoinedBySpace(waiting_goals, text)
           /\ waiting_goals = <<>> => text = <<>>
           /\ (\A i \in 1..Len(waiting_goals) : waiting_goals[i] # <<>>)
                  => SeparatorsInside(waiting_goals, text)

\* Two non-empty fragments have been joined.
C18_Witness ==
    /\ op = "render_list"
    /\ waiting_goals = <<<<"a">>, <<Backslash, "n">>>>
    /\ text = <<"a", " ", Backslash, "n">>

(***************************************************************************)
(* The typed accessors, stated over the paired value.                      *)
(***************************************************************************)
\* The keyword is present on a well-formed form.
Present == WellFormed(root) /\ Matches(root, key) # {}

\* C14: get_bool returns Some(b) exactly for the native boolean b and for a
\* string or a symbol spelled exactly true or false, and an error for every
\* other present value, the integer 1, the string yes, the symbol maybe and
\* other cases of the letters included.
C14_BoolExactSpellings ==
    (op = "get_bool" /\ Present)
        => LET v == Paired(root, key)
           IN  IF v.t = "bool" THEN res = OkSome(v.b)
               ELSE IF v.t \in {"str", "sym"} /\ v.s = True THEN res = OkSome(TRUE)
               ELSE IF v.t \in {"str", "sym"} /\ v.s = False THEN res = OkSome(FALSE)
               ELSE IsErr(res)

\* get_bool on the string True, which is no spelling of true.
C14_Witness ==
    /\ op = "get_bool" /\ Present
    /\ Paired(root, key) = Str(<<"T", "r", "u", "e">>)
    /\ IsErr(res)

\* The integer a base-10 numeral denotes.
RECURSIVE DecimalDigits(_, _)
DecimalDigits(d, acc) ==
    IF d = <<>> THEN acc ELSE DecimalDigits(Tail(d), acc * 10 + DigitVal(Head(d)))

Decimal(s) ==
    IF Head(s) = "-" THEN -DecimalDigits(Tail(s), 0)
    ELSE IF Head(s) = "+" THEN DecimalDigits(Tail(s), 0)
    ELSE DecimalDigits(s, 0)

\* C15: get_int returns Some(n) for the integer atom n and for a string
\* that is the base-10 numeral of n (n a signed integer of the width), and
\* an error for a string that is no base-10 numeral, a symbol and a list.
C15_IntFromAtomOrNumeral ==
    (op = "get_int" /\ Present)
        => LET v == Paired(root, key)
           IN  /\ v.t = "int" => res = OkSome(v.n)
               /\ (v.t = "str" /\ IsBase10(v.s)
                      /\ Decimal(v.s) >= I64Min /\ Decimal(v.s) <= I64Max)
                     => res = OkSome(Decimal(v.s))
               /\ (v.t = "str" /\ ~IsBase10(v.s)) => IsErr(res)
               /\ v.t \in {"sym", "cons"} => IsErr(res)

\* C16: for a non-negative integer atom u, get_int returns Some(u), never
\* a negative number, also when u is above the greatest signed integer of
\* the width.
C16_UnsignedKeepsMagnitude ==
    (op = "get_int" /\ Present /\ Paired(root, key).t = "int"
         /\ Paired(root, key).n >= 0)
        => /\ res = OkSome(Paired(root, key).n)
           /\ res.v >= 0

\* The numeral of a negative integer.
IsNegativeNumeral(s) == IsBase10(s) /\ Head(s) = "-" /\ Decimal(s) < 0

\* C17: get_uint is get_int followed by a sign check: Some(n) when get_int
\* gives Some(n) with n >= 0, an error when get_int gives a negative
\* number, None when get_int gives None, and the error of get_int when it
\* fails; a negative integer and the numeral of one never give a value.
C17_UintIsIntWithSignCheck ==
    op = "get_uint"
        => LET g == get_int(root, key)
           IN  /\ IsErr(g) => res = g
               /\ g = OkNone <=> res = OkNone
               /\ (g.k = "some" /\ g.v >= 0) => res = OkSome(g.v)
               /\ (g.k = "some" /\ g.v < 0) => IsErr(res)
               /\ res.k = "some" => (g.k = "some" /\ g.v >= 0)
               /\ Present =>
                     LET v == Paired(root, key)
                     IN  ((v.t = "int" /\ v.n < 0)
                             \/ (v.t = "str" /\ IsNegativeNumeral(v.s)))
                            => IsErr(res)

\* get_uint on the numeral -5.
C17_Witness ==
    /\ op = "get_uint" /\ Present
    /\ Paired(root, key) = Str(<<"-", "5">>)
    /\ get_int(root, key) = OkSome(-5)
    /\ IsErr(res)

(***************************************************************************)
(* Router::route, stated over the two tables.                              *)
(***************************************************************************)
\* The name route looks the handler up under: the alias target when the
\* requested name is an alias, the requested name otherwise.
Resolved == IF aliases[tool_name] \in Names THEN aliases[tool_name] ELSE tool_name

\* C19: route resolves the requested name through the alias table, invokes
\* the handler currently registered under the resolved name once, with the
\* arguments given, and returns its result (its value when it succeeds,
\* an error whose root cause is the handler's error when it fails); with
\* no handler under the resolved name it invokes none and returns an
\* Unknown tool error that names the requested name.
C19_RouteResolvesAliasThenDispatches ==
    op = "route"
        => IF handlers[Resolved] = "none"
           THEN /\ invoked = <<>>
                /\ res = Err(<<"Unknown tool: {}", tool_name>>)
           ELSE /\ invoked = <<<<handlers[Resolved], sexpr>>>>
                /\ IF handlers[Resolved] = "hfail"
                   THEN /\ IsErr(res)
                        /\ RootCause(res) = <<"handler failed", sexpr>>
                   ELSE res = Ok(<<handlers[Resolved], sexpr>>)

\* A call routed through an alias to the handler of its target, while the
\* requested name has a handler of its own.
C19_Witness ==
    /\ op = "route"
    /\ tool_name = "t1" /\ aliases["t1"] = "t2"
    /\ handlers["t1"] = "h1" /\ handlers["t2"] = "h2"
    /\ invoked = <<<<"h2", sexpr>>>>
    /\ res = Ok(<<"h2", sexpr>>)

(***************************************************************************)
(* extract_section, stated over the lines of the content.                  *)
(***************************************************************************)
\* The line is a heading: after its surrounding whitespace it starts with #.
IsHeading(l) == trim(l) # <<>> /\ Head(trim(l)) = "#"

\* The level of a heading line: the number of its leading #.
Level(l) == leading_hashes(trim(l))

\* The lines that are the requested heading.
HeadingLines == {i \in 1..Len(lines(content)) :
                    trim(lines(content)[i]) = trim(section_heading)}

\* The lines after the heading line that are headings of its level or of a
\* higher one.
Closing(start) ==
    {j \in (start + 1)..Len(lines(content)) :
        /\ IsHeading(lines(content)[j])
        /\ Level(lines(content)[j]) <= Level(lines(content)[start])}

\* C20: extract_section returns the lines from the heading line up to, not
\* including, the next heading line of the same or a higher level, or up to
\* the end of the content; deeper headings stay inside, and no line of the
\* result after the first is a heading of equal or higher level.
C20_SectionEndsAtNextPeerHeading ==
    (op = "extract_section" /\ HeadingLines # {})
        => LET ls == lines(content)
               start == SetMin(HeadingLines)
               stop == IF Closing(start) = {} THEN Len(ls) + 1
                       ELSE SetMin(Closing(start))
           IN  /\ res = Ok(join(SubSeq(ls, start, stop - 1), <<Newline>>))
               /\ \A k \in 2..Len(lines(res.v)) :
                      ~(/\ IsHeading(lines(res.v)[k])
                        /\ Level(lines(res.v)[k]) <= Level(ls[start]))

(***************************************************************************)
(* extract_sections, stated over the headings asked for.                   *)
(***************************************************************************)
\* The heading has a matching line in the content.
HasLine(h) == \E i \in 1..Len(lines(content)) : trim(lines(content)[i]) = trim(h)

\* The headings asked for that have no matching line.
Missing == {i \in 1..Len(section_headings) : ~HasLine(section_headings[i])}

\* C21: extract_sections returns the sections of the headings asked for,
\* each as extract_section gives it, joined in the order of the request,
\* and fails with SectionNotFound for the first heading without a matching
\* line, returning no text, whenever there is one.
C21_SectionsInRequestOrderOrNotFound ==
    op = "extract_sections"
        => IF Missing = {}
           THEN res = Ok(join([i \in 1..Len(section_headings) |->
                                  extract_section(content, section_headings[i]).v],
                              <<Newline, Newline>>))
           ELSE res = Err(<<"Section not found: {}",
                            section_headings[SetMin(Missing)]>>)

\* Two sections asked for against document order have been returned, the
\* later one of the document first.
C21_Witness ==
    /\ op = "extract_sections"
    /\ content = <<"#", " ", "a", Newline, "#", "#", " ", "b">>
    /\ section_headings = <<<<"#", "#", " ", "b">>, <<"#", " ", "a">>>>
    /\ res = Ok(<<"#", "#", " ", "b", Newline, Newline,
                    "#", " ", "a", Newline, "#", "#", " ", "b">>)

(***************************************************************************)
(* upsert_progress_snapshot, stated over the order of the lock.            *)
(***************************************************************************)
\* The calls that have executed, in the order they took the lock: all that
\* took it, but the one that holds it now.
Executed ==
    IF conn = "none" THEN lock_log ELSE SubSeq(lock_log, 1, Len(lock_log) - 1)

\* The places of Executed that are calls for the id.
CallsFor(id) == {n \in 1..Len(Executed) : Executed[n].internal_id = id}

SetMax(S) == CHOOSE i \in S : \A j \in S : j <= i

RowsFor(id) == {r \in progress_snapshots : r.internal_id = id}

IsTrimmed(l) == l # <<>> /\ l[1] \notin Whitespace /\ l[Len(l)] \notin Whitespace

\* The line is empty or holds whitespace only.
IsBlank(l) == \A i \in 1..Len(l) : l[i] \in Whitespace

\* C23: every line handed to on_line, and every line added to the history,
\* is non-empty and has no leading or trailing whitespace; after an empty
\* or blank input line the loop is back at its prompt, with nothing handed
\* on and nothing added to the history.
C23_OnLineSeesTrimmedNonEmpty ==
    /\ \A i \in 1..Len(calls) : calls[i][1] = "on_line" => IsTrimmed(calls[i][2])
    /\ \A i \in 1..Len(history) : IsTrimmed(history[i])
    /\ loop_pc = "on_line" => IsTrimmed(pending)
    /\ (op = "readline" /\ raw[1] = "Ok" /\ IsBlank(raw[2]))
          => /\ loop_pc = "prompt"
             /\ Len(calls) < prompts
             /\ Len(history) <= Cardinality({i \in 1..Len(calls) : calls[i][1] = "on_line"})

\* A blank line was dropped, then a line with whitespace around it was
\* handed to on_line without it and added to the history.
C23_Witness ==
    /\ prompts = 2
    /\ calls = <<<<"on_line", <<"a">>>>>>
    /\ raw = <<"Ok", <<" ", "a", "\t">>>>
    /\ history = <<<<"a">>>>

\* C29: when a callback has returned Break the loop has returned Ok(()) and
\* that callback was its last step; when on_interrupt or on_eof has
\* returned Continue the loop is at its prompt and on_line was not called
\* for the event; a readline error other than interrupt and end of input,
\* and an error of on_line, end the loop with that error.
C29_BreakEndsContinuePrompts ==
    /\ control = "Break"
          => /\ loop_pc = "returned" /\ res = OkUnit
             /\ op \in {"on_line", "on_interrupt", "on_eof"}
             /\ calls[Len(calls)][1] = op
    /\ (op \in {"on_interrupt", "on_eof"} /\ control = "Continue")
          => /\ loop_pc = "prompt"
             /\ calls[Len(calls)] = <<op>>
    /\ (op = "readline" /\ raw[1] = "Err" /\ raw[2] \notin {"Interrupted", "Eof"})
          => /\ loop_pc = "returned"
             /\ IsErr(res) /\ RootCause(res) = raw[2]
    /\ (op = "on_line" /\ control = "Err")
          => loop_pc = "returned" /\ res = Err("on_line failed")

\* on_eof has returned Continue, the loop has prompted again and on_interrupt
\* has then returned Break.
C29_Witness ==
    /\ calls = <<<<"on_eof">>, <<"on_interrupt">>>>
    /\ prompts = 2
    /\ control = "Break"
    /\ loop_pc = "returned" /\ res = OkUnit

(***************************************************************************)
(* Router::tool_names and Router::has_tool, stated over the calls made.    *)
(***************************************************************************)
\* C25: tool_names() lists exactly the names passed to register so far,
\* each once however often it was registered, and no name that was passed
\* to register_alias only.
C25_ToolNamesAreRegisteredNames ==
    op = "tool_names"
        => /\ Range(res.v) = registered
           /\ Len(res.v) = Cardinality(registered)
           /\ \A n \in Names :
                  (aliases[n] # "none" /\ n \notin registered) => n \notin Range(res.v)

\* Two tools and an alias of one of them: the alias is not listed.
C25_Witness ==
    /\ op = "tool_names"
    /\ registered = {"t1", "t2"}
    /\ aliases["t3"] = "t1"
    /\ res = Ok(<<"t2", "t1">>)

\* The result is the Unknown tool error of route.
IsUnknownTool(r) == IsErr(r) /\ RootCause(r)[1] = "Unknown tool: {}"

\* C26: in every state reached by register and register_alias, and for
\* every name, has_tool(name) is true exactly when route(name, args) does
\* not fail with the Unknown tool error.
C26_HasToolIffRouteKnows ==
    /\ \A n \in Names, a \in Sexprs :
           has_tool(handlers, aliases, n)
               <=> ~IsUnknownTool(route(handlers, aliases, n, a).res)
    /\ op = "has_tool"
          => \A a \in Sexprs :
                res = Ok(~IsUnknownTool(route(handlers, aliases, tool_name, a).res))

\* has_tool is true for an alias without handler of its own whose target's
\* handler fails: route fails, but not with Unknown tool.
C26_Witness ==
    /\ op = "has_tool"
    /\ tool_name = "t1" /\ handlers["t1"] = "none"
    /\ aliases["t1"] = "t2" /\ handlers["t2"] = "hfail"
    /\ res = Ok(TRUE)

\* C27: when the requested name is a key of the alias table, route and
\* has_tool consider the handler under the alias target only: the target
\* is not resolved again and a handler registered under the requested name
\* is not used; register and register_alias replace the earlier entry of
\* the name.
C27_AliasOneStepBeforeDirect ==
    /\ (op = "route" /\ aliases[tool_name] # "none")
          => IF handlers[aliases[tool_name]] = "none"
             THEN invoked = <<>> /\ IsUnknownTool(res)
             ELSE invoked = <<<<handlers[aliases[tool_name]], sexpr>>>>
    /\ (op = "has_tool" /\ aliases[tool_name] # "none")
          => res = Ok(handlers[aliases[tool_name]] # "none")
    /\ op = "register" => handlers[tool_name] = handler
    /\ op = "register_alias" => aliases[alias] = canonical

\* A call for an alias whose target has no handler fails, although the
\* requested name has a handler of its own and the target is an alias of a
\* name that has one.
C27_Witness ==
    /\ op = "route"
    /\ tool_name = "t1" /\ handlers["t1"] = "h1"
    /\ aliases["t1"] = "t2" /\ handlers["t2"] = "none"
    /\ aliases["t2"] = "t3" /\ handlers["t3"] = "h2"
    /\ invoked = <<>> /\ IsUnknownTool(res)

(***************************************************************************)
(* Keyword-shaped atoms in value position.                                 *)
(***************************************************************************)
\* (tool :a :b 1)
KeywordAsValue == Cons(Tag, List(<<Sym(<<":", "a">>), Sym(<<":", "b">>), Num(1)>>))

\* The value positions whose atom would name the requested name.
ValueMatches(r, name) ==
    {i \in 1..Len(Args(r)) :
        i % 2 = 0 /\ HasName(Args(r)[i]) /\ NameOf(Args(r)[i]) = name}

\* C28: a keyword-shaped atom in value position is the value of the
\* keyword before it and is not looked up itself: a value returned is the
\* element after the first keyword position that names the key, so a name
\* found in value positions only gives no value; for (tool :a :b 1) the
\* key a gives the symbol :b and the key b gives Ok(None).
C28_ValuePositionIsNotAKeyword ==
    (op = "get_kw_value" /\ IsCons(root) /\ IsProper(root))
        => /\ res.k = "some"
                 => /\ Matches(root, key) # {}
                    /\ res.v = Args(root)[SetMin(Matches(root, key)) + 1]
           /\ (root = KeywordAsValue /\ key = <<"a">>)
                 => res = OkSome(Sym(<<":", "b">>))
           /\ (root = KeywordAsValue /\ key = <<"b">>) => res = OkNone

\* The key b asked for on (tool :a :b 1), where :b stands in value
\* position only.
C28_Witness ==
    /\ op = "get_kw_value"
    /\ root = KeywordAsValue /\ key = <<"b">>
    /\ ValueMatches(root, key) = {2} /\ Matches(root, key) = {}
    /\ res = OkNone

(***************************************************************************)
(* The spacing of the responses.                                           *)
(***************************************************************************)
\* The elements of a form written with one space between consecutive
\* ones, none after the opening and none before the closing parenthesis.
FormOf(elements) == <<"(">> \o join(elements, <<" ">>) \o <<")">>

\* The two elements every field is written as: the marked key and the
\* quoted value.
RECURSIVE FieldFragments(_)
FieldFragments(fs) ==
    IF fs = <<>> THEN <<>>
    ELSE <<<<":">> \o fs[1][1], quote_str(fs[1][2])>> \o FieldFragments(Tail(fs))

GoalFragments(goals) == [i \in 1..Len(goals) |-> quote_str(goals[i])]

\* C30: for every field list, the empty one included, format_success,
\* format_complete and format_blocked write their elements with exactly
\* one space between consecutive ones, no space after the opening and none
\* before the closing parenthesis; without fields that is the bare form.
C30_OneSpaceBetweenElements ==
    /\ op = "format_success"
          => text = FormOf(<<<<"s", "u", "c", "c", "e", "s", "s">>>> \o FieldFragments(fields))
    /\ op = "format_complete"
          => text = FormOf(<<<<"c", "o", "m", "p", "l", "e", "t", "e">>>> \o FieldFragments(fields))
    /\ op = "format_blocked"
          => text = FormOf(<<<<"b", "l", "o", "c", "k", "e", "d">>, <<":", "w", "a", "i", "t", "i", "n", "g", "-", "g", "o", "a", "l", "s">>, FormOf(GoalFragments(waiting_goals))>>
                              \o FieldFragments(fields))

====
